---- MODULE Spec2Model ----
(***************************************************************************)
(* Campaign state machine of the outreach automation agent.                *)
(*                                                                         *)
(* State: the module-global campaign_data store of agent/main.py and the   *)
(* effects its handlers have on the collaborators (messages handed to the  *)
(* HubSpot stub, calls of notify_on_interest and book_meeting).            *)
(* Operations: the initial step of demo_mode / run_campaign, and the three *)
(* callbacks check_responses, day3_followup and day4_personalized.         *)
(***************************************************************************)
EXTENDS Integers, Sequences, FiniteSets, TLC

(* ------------------------------ bounds -------------------------------- *)
NumContacts == 2     \* contacts of the data set the campaign is run with
MaxResponses == 2    \* responses received in the whole campaign
MaxCalls == 2        \* calls of the three callbacks together
MaxRoles == 2        \* roles in a target_roles list
MaxDaysAhead == 7    \* days_ahead of find_available_slots

(* --------------------------- lead source ------------------------------ *)
\* emails of the mock data set, in the order find_companies_and_contacts
\* emits them for "manufacturing, construction" and the three target roles
AllContacts ==
    << "john.doe@example.com", "sarah.wilson@example.com",
       "m.chen@example.com", "j.taylor@example.com",
       "d.thompson@example.com", "jane.smith@example.com",
       "r.johnson@example.com", "emma.davis@example.com" >>

\* the contact list the campaign is started with (a prefix of the data set)
Companies == SubSeq(AllContacts, 1, NumContacts)

Emails == {Companies[i] : i \in DOMAIN Companies}

(* ------------------------------ helpers ------------------------------- *)
Range(s) == {s[i] : i \in DOMAIN s}

Count(e, s) == Cardinality({i \in DOMAIN s : s[i] = e})

NoDuplicates(s) == \A i, j \in DOMAIN s : s[i] = s[j] => i = j

RECURSIVE SelectSeqBy(_, _)
\* list comprehension [x for x in s if x \in keep]
SelectSeqBy(s, keep) ==
    IF s = << >> THEN << >>
    ELSE IF Head(s) \in keep
         THEN << Head(s) >> \o SelectSeqBy(Tail(s), keep)
         ELSE SelectSeqBy(Tail(s), keep)

(* ------------------------- response classifier ------------------------ *)
\* The random draws simulate_fetch_responses makes for one address.  The
\* draws are made lazily (a later draw happens only when the earlier tests
\* fail), so a draw that is never made is written FALSE.
Draws ==
    { d \in [bounce : BOOLEAN, unsub : BOOLEAN, reply : BOOLEAN,
             ooo : BOOLEAN, interested : BOOLEAN] :
        /\ d.bounce => ~d.unsub
        /\ (d.bounce \/ d.unsub) => ~d.reply
        /\ ~d.reply => ~d.ooo
        /\ (~d.reply \/ d.ooo) => ~d.interested }

\* every value the five tests can take for one address, whether or not the
\* code gets to make the draw
AllDraws ==
    [bounce : BOOLEAN, unsub : BOOLEAN, reply : BOOLEAN,
     ooo : BOOLEAN, interested : BOOLEAN]

\* the draws for this address produce a response
Responds(d) == d.bounce \/ d.unsub \/ d.reply

NoResponse == [email |-> "", status |-> "none",
               is_out_of_office |-> FALSE, is_interested |-> FALSE]

\* body of the loop of simulate_fetch_responses for one address
FetchOne(email, d) ==
    IF d.bounce
    THEN [email |-> email, status |-> "bounced",
          is_out_of_office |-> FALSE, is_interested |-> FALSE]
    ELSE IF d.unsub
    THEN [email |-> email, status |-> "unsubscribed",
          is_out_of_office |-> FALSE, is_interested |-> FALSE]
    ELSE IF d.reply
    THEN [email |-> email, status |-> "replied",
          is_out_of_office |-> d.ooo,
          is_interested |-> ((~d.ooo /\ d.interested) /\ ~d.ooo)]
    ELSE NoResponse

RECURSIVE simulate_fetch_responses_NoContinue(_, _)
\* simulate_fetch_responses without the two `continue` statements: after a
\* bounce the unsubscribe and reply tests are still made
simulate_fetch_responses_NoContinue(email_addresses, draws) ==
    IF email_addresses = << >> THEN << >>
    ELSE LET email == Head(email_addresses)
             d == Head(draws)
             rest == simulate_fetch_responses_NoContinue(Tail(email_addresses),
                                                         Tail(draws))
         IN  (IF d.bounce
              THEN << FetchOne(email, d) >> ELSE << >>)
             \o (IF d.unsub
                 THEN << FetchOne(email, [d EXCEPT !.bounce = FALSE]) >>
                 ELSE << >>)
             \o (IF d.reply
                 THEN << FetchOne(email, [d EXCEPT !.bounce = FALSE,
                                                  !.unsub = FALSE]) >>
                 ELSE << >>)
             \o rest

RECURSIVE simulate_fetch_responses(_, _)
simulate_fetch_responses(email_addresses, draws) ==
    IF email_addresses = << >> THEN << >>
    ELSE LET r == FetchOne(Head(email_addresses), Head(draws))
             rest == simulate_fetch_responses(Tail(email_addresses), Tail(draws))
         IN  IF r.status = "none" THEN rest ELSE << r >> \o rest

RECURSIVE FilterResponses_StopAtOutOfOffice(_)
\* process_responses with `break` where the code has `continue`
FilterResponses_StopAtOutOfOffice(raw) ==
    IF raw = << >> THEN << >>
    ELSE LET r == Head(raw)
             rest == FilterResponses_StopAtOutOfOffice(Tail(raw))
         IN  IF r.status = "bounced" THEN << r >> \o rest
             ELSE IF r.status = "unsubscribed" THEN << r >> \o rest
             ELSE IF r.status = "replied"
                  THEN IF r.is_out_of_office THEN << >> ELSE << r >> \o rest
                  ELSE rest

RECURSIVE FilterResponses_KeepOutOfOffice(_)
\* process_responses without the out-of-office test
FilterResponses_KeepOutOfOffice(raw) ==
    IF raw = << >> THEN << >>
    ELSE LET r == Head(raw)
             rest == FilterResponses_KeepOutOfOffice(Tail(raw))
         IN  IF r.status = "bounced" THEN << r >> \o rest
             ELSE IF r.status = "unsubscribed" THEN << r >> \o rest
             ELSE IF r.status = "replied" THEN << r >> \o rest
             ELSE rest

RECURSIVE FilterResponses(_)
\* the loop of process_responses over the raw responses
FilterResponses(raw) ==
    IF raw = << >> THEN << >>
    ELSE LET r == Head(raw)
             rest == FilterResponses(Tail(raw))
         IN  IF r.status = "bounced" THEN << r >> \o rest
             ELSE IF r.status = "unsubscribed" THEN << r >> \o rest
             ELSE IF r.status = "replied"
                  THEN IF r.is_out_of_office THEN rest ELSE << r >> \o rest
                  ELSE rest

process_responses(email_addresses, draws) ==
    FilterResponses(simulate_fetch_responses(email_addresses, draws))

(* ---------------------------- collaborators --------------------------- *)
\* what happens inside send_to_slack: the message is posted, or the Slack
\* API raises SlackApiError (no token / no SDK take the same fallback path)
SlackOutcomes == {"posted", "api_error"}

\* send_to_slack returns True after a post and True after the simulated
\* fallback
send_to_slack(slack) ==
    IF slack = "posted" THEN TRUE ELSE TRUE

notify_on_interest(email, slack) == send_to_slack(slack)

\* what happens inside book_meeting: find_available_slots returns nothing,
\* simulate_calendar_booking fails, or the meeting is booked
BookOutcomes == {"booked", "no_slots", "calendar_failed"}

book_meeting(email, booking) ==
    IF booking = "no_slots" THEN FALSE
    ELSE IF booking = "booked" THEN TRUE
    ELSE FALSE

\* the environment's answers for one address in one response check: the
\* random draws of the classifier and, for an interested reply, the outcome
\* of the Slack post and of the booking (written as the first outcome when
\* the collaborator is not called)
Fates ==
    { f \in [draw : Draws, slack : SlackOutcomes, booking : BookOutcomes] :
        ~f.draw.interested => (f.slack = "posted" /\ f.booking = "booked") }

\* the fates in which the address responds, and the one in which all three
\* tests of simulate_fetch_responses fail
RespondingFates == {f \in Fates : Responds(f.draw)}

SilentFate == CHOOSE f \in Fates : ~Responds(f.draw)

(* ------------------------------- state -------------------------------- *)
VARIABLES
    campaign_data,   \* the in-memory store of main.py
    outbox,          \* messages handed to simulate_hubspot_api_call, in order
    notify_calls,    \* per email: number of notify_on_interest calls so far
    book_calls,      \* per email: number of book_meeting calls so far
    last_call,       \* the handler that ran last
    last_pass,       \* record of the last check_responses call
    last_send,       \* the contacts the last stage send was given
    calls,           \* how many times each handler has run
    mode,            \* the entry point that drives the handlers
    arg,             \* the arguments of a function applied on its own
    result,          \* what that function returned
    jobs,            \* the scheduler's jobs (run_campaign)
    scheduler        \* the state of the BackgroundScheduler

\* the store and the record of what the handlers did
campaign_vars == << campaign_data, outbox, notify_calls, book_calls,
                    last_call, last_pass, last_send, calls >>

\* a function applied on its own, outside a campaign
call_vars == << arg, result >>

\* the scheduler of run_campaign
sched_vars == << jobs, scheduler >>

vars == << campaign_data, outbox, notify_calls, book_calls,
           last_call, last_pass, last_send, calls,
           mode, arg, result, jobs, scheduler >>

Buckets == {"bounced", "unsubscribed", "replied", "interested", "meetings_booked"}

EmptyStore ==
    [contacts |-> << >>, sent_initial |-> << >>, bounced |-> << >>,
     unsubscribed |-> << >>, replied |-> << >>, interested |-> << >>,
     meetings_booked |-> << >>]

NoPass == [pre |-> EmptyStore, emails |-> << >>, raw |-> << >>,
           responses |-> << >>, events |-> << >>, handled |-> 0]

NoValue == [kind |-> "none"]

NoJob == [pc |-> "off", batch |-> << >>, todo |-> << >>, runs |-> 0]

\* nothing is being applied on its own
NoCall ==
    /\ arg = NoValue
    /\ result = NoValue

\* no scheduler has been created
NoScheduler ==
    /\ jobs = [j \in {"day3", "day4", "check"} |-> NoJob]
    /\ scheduler = "none"

\* the module-level state of main.py right after import
EmptyCampaign ==
    /\ campaign_data = EmptyStore
    /\ outbox = << >>
    /\ notify_calls = [e \in Emails |-> 0]
    /\ book_calls = [e \in Emails |-> 0]
    /\ last_call = "none"
    /\ last_pass = NoPass
    /\ last_send = << >>
    /\ calls = [start |-> 0, check |-> 0, day3 |-> 0, day4 |-> 0,
                responses |-> 0]

\* the handlers are called one after another, in any order
Init ==
    /\ EmptyCampaign
    /\ mode = "calls"
    /\ NoCall
    /\ NoScheduler

(* --------------------------- outreach dispatcher ---------------------- *)
RECURSIVE SendStage(_, _)
\* the loop shared by send_initial_emails, send_followup_emails and
\* send_personalized_emails: one HubSpot call per contact, always successful
SendStage(campaign_id, contacts) ==
    IF contacts = << >> THEN << >>
    ELSE << [campaign_id |-> campaign_id, to |-> Head(contacts)] >>
         \o SendStage(campaign_id, Tail(contacts))

send_initial_emails(contacts) == SendStage("initial_outreach", contacts)

send_followup_emails(contacts) == SendStage("followup_outreach", contacts)

\* send_personalized_emails with the campaign id of the follow-up batch
send_personalized_emails_FollowupId(contacts) ==
    SendStage("followup_outreach", contacts)

send_personalized_emails(contacts) == SendStage("personalized_outreach", contacts)

SentTo(box, campaign_id, e) ==
    Cardinality({i \in DOMAIN box : box[i].campaign_id = campaign_id /\ box[i].to = e})

(* ------------------------ campaign state machine ---------------------- *)
\* day3_followup with the bounced / unsubscribed tests left out
Day3Eligible_ReplyFilterOnly(cd) ==
    SelectSeqBy(cd.contacts,
                {e \in Range(cd.contacts) : e \notin Range(cd.replied)})

\* the eligibility filter of day3_followup
Day3Eligible(cd) ==
    SelectSeqBy(cd.contacts,
                {e \in Range(cd.contacts) :
                    /\ e \notin Range(cd.bounced)
                    /\ e \notin Range(cd.unsubscribed)
                    /\ e \notin Range(cd.replied)})

\* day4_personalized with the replied test left out
Day4Eligible_NoReplyFilter(cd) ==
    SelectSeqBy(cd.contacts,
                {e \in Range(cd.contacts) :
                    /\ e \notin Range(cd.bounced)
                    /\ e \notin Range(cd.unsubscribed)})

\* the eligibility filter of day4_personalized
Day4Eligible(cd) ==
    SelectSeqBy(cd.contacts,
                {e \in Range(cd.contacts) :
                    /\ e \notin Range(cd.bounced)
                    /\ e \notin Range(cd.unsubscribed)
                    /\ e \notin Range(cd.replied)})

\* one effect of a response check: kind is "interested" (appended to the
\* interested bucket), "notify" (notify_on_interest called; how is what
\* happened to the Slack post), "book" (book_meeting called) or "meeting"
\* (appended to meetings_booked); ok is the call's return value
Event(kind, email, ok, how) ==
    [kind |-> kind, email |-> email, ok |-> ok, how |-> how]

\* check_responses with the booking block one level out: a meeting is
\* booked for every reply, interested or not
HandleResponse_BookEveryReply(st, response, env) ==
    LET email == response.email
        cd == st.cd
    IN
    IF response.status = "bounced"
    THEN [st EXCEPT !.cd.bounced = Append(cd.bounced, email),
                    !.handled = st.handled + 1]
    ELSE IF response.status = "unsubscribed"
    THEN [st EXCEPT !.cd.unsubscribed = Append(cd.unsubscribed, email),
                    !.handled = st.handled + 1]
    ELSE IF response.status = "replied"
    THEN LET booked == book_meeting(email, env.booking)
         IN  [st EXCEPT
                !.cd.replied = Append(cd.replied, email),
                !.cd.interested =
                    IF response.is_interested THEN Append(cd.interested, email)
                    ELSE cd.interested,
                !.cd.meetings_booked =
                    IF booked THEN Append(cd.meetings_booked, email)
                    ELSE cd.meetings_booked,
                !.events = st.events \o
                    (IF response.is_interested
                     THEN << Event("interested", email, TRUE, ""),
                             Event("notify", email,
                                   notify_on_interest(email, env.slack), env.slack) >>
                     ELSE << >>) \o
                    << Event("book", email, booked, "") >> \o
                    (IF booked THEN << Event("meeting", email, TRUE, "") >>
                     ELSE << >>),
                !.handled = st.handled + 1]
    ELSE [st EXCEPT !.handled = st.handled + 1]

\* check_responses with the interested test ahead of the append to replied:
\* an interested reply goes to the interested bucket only
HandleResponse_InterestedNotReplied(st, response, env) ==
    LET email == response.email
        cd == st.cd
    IN
    IF response.status = "bounced"
    THEN [st EXCEPT !.cd.bounced = Append(cd.bounced, email),
                    !.handled = st.handled + 1]
    ELSE IF response.status = "unsubscribed"
    THEN [st EXCEPT !.cd.unsubscribed = Append(cd.unsubscribed, email),
                    !.handled = st.handled + 1]
    ELSE IF response.status = "replied"
    THEN IF response.is_interested
         THEN [st EXCEPT !.cd.interested = Append(cd.interested, email),
                         !.handled = st.handled + 1]
         ELSE [st EXCEPT !.cd.replied = Append(cd.replied, email),
                         !.handled = st.handled + 1]
    ELSE [st EXCEPT !.handled = st.handled + 1]

\* body of the loop of check_responses for one response; st carries the
\* store and the effects of the pass so far, env the collaborators'
\* outcomes for the response's address
HandleResponse(st, response, env) ==
    LET email == response.email
        cd == st.cd
    IN
    IF response.status = "bounced"
    THEN [st EXCEPT !.cd.bounced = Append(cd.bounced, email),
                    !.handled = st.handled + 1]
    ELSE IF response.status = "unsubscribed"
    THEN [st EXCEPT !.cd.unsubscribed = Append(cd.unsubscribed, email),
                    !.handled = st.handled + 1]
    ELSE IF response.status = "replied"
    THEN IF response.is_interested
         THEN LET notified == notify_on_interest(email, env.slack)
                  booked == book_meeting(email, env.booking)
              IN  [st EXCEPT
                     !.cd.replied = Append(cd.replied, email),
                     !.cd.interested = Append(cd.interested, email),
                     !.cd.meetings_booked =
                         IF booked THEN Append(cd.meetings_booked, email)
                         ELSE cd.meetings_booked,
                     !.events = st.events \o
                         << Event("interested", email, TRUE, ""),
                            Event("notify", email, notified, env.slack),
                            Event("book", email, booked, "") >> \o
                         (IF booked THEN << Event("meeting", email, TRUE, "") >>
                          ELSE << >>),
                     !.handled = st.handled + 1]
         ELSE [st EXCEPT !.cd.replied = Append(cd.replied, email),
                         !.handled = st.handled + 1]
    ELSE [st EXCEPT !.handled = st.handled + 1]

RECURSIVE CheckLoop_AbortOnSlackError(_, _, _)
\* check_responses as it would run if send_to_slack let SlackApiError
\* escape: the pass ends at the failed notification
CheckLoop_AbortOnSlackError(st, responses, envOf) ==
    IF responses = << >> THEN st
    ELSE LET r == Head(responses)
         IN  IF /\ r.status = "replied"
                /\ r.is_interested
                /\ envOf[r.email].slack = "api_error"
             THEN [st EXCEPT
                     !.cd.replied = Append(st.cd.replied, r.email),
                     !.cd.interested = Append(st.cd.interested, r.email),
                     !.events = st.events \o
                         << Event("interested", r.email, TRUE, ""),
                            Event("notify", r.email, FALSE, "api_error") >>]
             ELSE CheckLoop_AbortOnSlackError(
                      HandleResponse(st, r, envOf[r.email]),
                      Tail(responses), envOf)

RECURSIVE CheckLoop_ResetOnEmpty(_, _, _)
\* check_responses as it would run if a pass without responses emptied the
\* replied bucket
CheckLoop_ResetOnEmpty(st, responses, envOf) ==
    IF responses = << >>
    THEN IF st.handled = 0 THEN [st EXCEPT !.cd.replied = << >>] ELSE st
    ELSE CheckLoop_ResetOnEmpty(
             HandleResponse(st, Head(responses), envOf[Head(responses).email]),
             Tail(responses), envOf)

RECURSIVE CheckLoop(_, _, _)
\* the for loop of check_responses
CheckLoop(st, responses, envOf) ==
    IF responses = << >> THEN st
    ELSE CheckLoop(HandleResponse(st, Head(responses), envOf[Head(responses).email]),
                   Tail(responses), envOf)

\* the collaborators' outcomes per address, from the fates per position
EnvOf(emails, fates) ==
    [e \in Range(emails) |->
        LET i == CHOOSE k \in DOMAIN emails : emails[k] = e
        IN  [slack |-> fates[i].slack, booking |-> fates[i].booking]]

EventCount(events, kind, e) ==
    Cardinality({i \in DOMAIN events : events[i].kind = kind /\ events[i].email = e})

(* ------------------------------ actions ------------------------------- *)
CallsMade == calls.check + calls.day3 + calls.day4

\* the calls demo_mode makes after the initial send, in order
DemoScript == << "check", "day3", "check", "day4", "check" >>

\* the handler may be called now: any handler while the budget lasts, or
\* the next one of demo_mode's script
MayCall(handler) ==
    IF mode = "demo"
    THEN /\ calls.start = 1
         /\ CallsMade < Len(DemoScript)
         /\ DemoScript[CallsMade + 1] = handler
    ELSE /\ mode = "calls"
         /\ CallsMade < MaxCalls

\* steps 1 and 2 of demo_mode / run_campaign: fetch the contacts, send the
\* initial emails, record them as sent
StartCampaign ==
    /\ mode \in {"calls", "demo"}
    /\ calls.start = 0
    /\ LET companies == Companies
       IN  /\ campaign_data' = [campaign_data EXCEPT
                                   !.contacts = companies,
                                   !.sent_initial = companies]
           /\ outbox' = outbox \o send_initial_emails(companies)
           /\ last_send' = companies
    /\ last_call' = "start"
    /\ calls' = [calls EXCEPT !.start = 1]
    /\ UNCHANGED << notify_calls, book_calls, last_pass >>
    /\ UNCHANGED << mode, arg, result, jobs, scheduler >>

day3_followup ==
    /\ MayCall("day3")
    /\ LET eligible_contacts == Day3Eligible(campaign_data)
       IN  /\ outbox' = outbox \o send_followup_emails(eligible_contacts)
           /\ last_send' = eligible_contacts
    /\ last_call' = "day3"
    /\ calls' = [calls EXCEPT !.day3 = @ + 1]
    /\ UNCHANGED << campaign_data, notify_calls, book_calls, last_pass >>
    /\ UNCHANGED << mode, arg, result, jobs, scheduler >>

day4_personalized ==
    /\ MayCall("day4")
    /\ LET eligible_contacts == Day4Eligible(campaign_data)
       IN  /\ outbox' = outbox \o send_personalized_emails(eligible_contacts)
           /\ last_send' = eligible_contacts
    /\ last_call' = "day4"
    /\ calls' = [calls EXCEPT !.day4 = @ + 1]
    /\ UNCHANGED << campaign_data, notify_calls, book_calls, last_pass >>
    /\ UNCHANGED << mode, arg, result, jobs, scheduler >>

\* a response check that asks about every contact of the data set
CheckedAddresses_AllCompanies(cd) == Companies

\* the addresses check_responses hands to process_responses
CheckedAddresses(cd) == cd.sent_initial

check_responses ==
    /\ MayCall("check")
    /\ LET emails == CheckedAddresses(campaign_data)
       IN  \E responders \in SUBSET (DOMAIN emails) :
             /\ calls.responses + Cardinality(responders) <= MaxResponses
             /\ \E answers \in [responders -> RespondingFates] :
                  LET fates == [i \in DOMAIN emails |->
                                   IF i \in responders THEN answers[i]
                                   ELSE SilentFate]
                      draws == [i \in DOMAIN emails |-> fates[i].draw]
                      raw == simulate_fetch_responses(emails, draws)
                      new_responses == process_responses(emails, draws)
                      st == CheckLoop([cd |-> campaign_data, events |-> << >>,
                                       handled |-> 0],
                                      new_responses, EnvOf(emails, fates))
                  IN  /\ campaign_data' = st.cd
                      /\ notify_calls' =
                             [e \in Emails |->
                                 notify_calls[e]
                                   + EventCount(st.events, "notify", e)]
                      /\ book_calls' =
                             [e \in Emails |->
                                 book_calls[e] + EventCount(st.events, "book", e)]
                      /\ last_pass' = [pre |-> campaign_data, emails |-> emails,
                                       raw |-> raw, responses |-> new_responses,
                                       events |-> st.events,
                                       handled |-> st.handled]
                      /\ calls' = [calls EXCEPT
                                      !.check = @ + 1,
                                      !.responses = @ + Cardinality(responders)]
    /\ last_call' = "check"
    /\ UNCHANGED << outbox, last_send >>
    /\ UNCHANGED << mode, arg, result, jobs, scheduler >>

Next ==
    \/ StartCampaign
    \/ check_responses
    \/ day3_followup
    \/ day4_personalized

Spec == Init /\ [][Next]_vars

\* demo_mode: the initial send, then the script of calls
InitDemo ==
    /\ EmptyCampaign
    /\ mode = "demo"
    /\ NoCall
    /\ NoScheduler

DemoSpec == InitDemo /\ [][Next]_vars

(* ----------------------- run_campaign's scheduler --------------------- *)
\* run_campaign hands day3_followup and day4_personalized (date triggers)
\* and check_responses (interval trigger) to a BackgroundScheduler, which
\* runs each due job in a thread of its pool; main.py takes no lock.  A
\* job's run is a step that starts it (the filter of a stage send, or
\* process_responses) and one step per iteration of its loop.
JobNames == {"day3", "day4", "check"}

Running == {j \in JobNames : jobs[j].pc = "running"}

\* runs of the jobs started so far
JobRuns == jobs["day3"].runs + jobs["day4"].runs + jobs["check"].runs

InitSched ==
    /\ EmptyCampaign
    /\ mode = "sched"
    /\ NoCall
    /\ NoScheduler

\* run_campaign up to scheduler.start()
run_campaign ==
    /\ mode = "sched"
    /\ scheduler = "none"
    /\ LET companies == Companies
       IN  /\ campaign_data' = [campaign_data EXCEPT
                                   !.contacts = companies,
                                   !.sent_initial = companies]
           /\ outbox' = outbox \o send_initial_emails(companies)
           /\ last_send' = companies
    /\ last_call' = "start"
    /\ calls' = [calls EXCEPT !.start = 1]
    /\ jobs' = [j \in JobNames |-> [NoJob EXCEPT !.pc = "scheduled"]]
    /\ scheduler' = "running"
    /\ UNCHANGED << notify_calls, book_calls, last_pass, mode, arg, result >>

\* a date job comes due (day4's run date is a day after day3's): the stage
\* callback starts in a pool thread and evaluates its filter
StageJobStarts ==
    /\ scheduler = "running"
    /\ JobRuns < MaxCalls
    /\ \E j \in {"day3", "day4"} :
          /\ jobs[j].pc = "scheduled"
          /\ j = "day4" => jobs["day3"].pc \in {"done", "missed"}
          /\ LET eligible_contacts ==
                     IF j = "day3" THEN Day3Eligible(campaign_data)
                     ELSE Day4Eligible(campaign_data)
             IN  jobs' = [jobs EXCEPT ![j] = [pc |-> "running",
                                              batch |-> eligible_contacts,
                                              todo |-> eligible_contacts,
                                              runs |-> @.runs + 1]]
          /\ calls' = [calls EXCEPT ![j] = @ + 1]
    /\ UNCHANGED << campaign_data, outbox, notify_calls, book_calls,
                    last_call, last_pass, last_send, mode, arg, result,
                    scheduler >>

\* one iteration of the loop of send_followup_emails / send_personalized_emails
StageJobSends ==
    /\ scheduler \in {"running", "shutting_down"}
    /\ \E j \in {"day3", "day4"} :
          /\ jobs[j].pc = "running"
          /\ jobs[j].todo # << >>
          /\ outbox' = outbox \o
                 (IF j = "day3"
                  THEN send_followup_emails(<< Head(jobs[j].todo) >>)
                  ELSE send_personalized_emails(<< Head(jobs[j].todo) >>))
          /\ jobs' = [jobs EXCEPT ![j].todo = Tail(@)]
    /\ UNCHANGED << campaign_data, notify_calls, book_calls, last_call,
                    last_pass, last_send, calls, mode, arg, result, scheduler >>

\* what a responding address can do under the scheduler.  No stage filter
\* reads meetings_booked or the notifier's return value, so the Slack post
\* and the booking are taken to succeed here; their failures are explored
\* where the handlers are called one at a time.
SchedFates ==
    {f \in RespondingFates : f.slack = "posted" /\ f.booking = "booked"}

\* a date job's run time passes without the scheduler starting it (it was
\* not awake within the job's misfire grace time): the run is dropped, and
\* a date job has no other run
StageJobMissed ==
    /\ scheduler = "running"
    /\ \E j \in {"day3", "day4"} :
          /\ jobs[j].pc = "scheduled"
          /\ j = "day4" => jobs["day3"].pc \in {"done", "missed"}
          /\ jobs' = [jobs EXCEPT ![j].pc = "missed"]
    /\ UNCHANGED << campaign_data, outbox, notify_calls, book_calls,
                    last_call, last_pass, last_send, calls, mode, arg, result,
                    scheduler >>

\* the interval job comes due (never while its previous run is still going:
\* max_instances is 1): check_responses starts and calls process_responses
CheckJobStarts ==
    /\ scheduler = "running"
    /\ JobRuns < MaxCalls
    /\ jobs["check"].pc = "scheduled"
    /\ LET emails == CheckedAddresses(campaign_data)
       IN  \E responders \in SUBSET (DOMAIN emails) :
             /\ calls.responses + Cardinality(responders) <= MaxResponses
             /\ \E answers \in [responders -> SchedFates] :
                  LET fates == [i \in DOMAIN emails |->
                                   IF i \in responders THEN answers[i]
                                   ELSE SilentFate]
                      draws == [i \in DOMAIN emails |-> fates[i].draw]
                      new_responses == process_responses(emails, draws)
                      envOf == EnvOf(emails, fates)
                      work == [i \in DOMAIN new_responses |->
                                  [response |-> new_responses[i],
                                   env |-> envOf[new_responses[i].email]]]
                  IN  /\ jobs' = [jobs EXCEPT !["check"] =
                                     [pc |-> "running", batch |-> work,
                                      todo |-> work, runs |-> @.runs + 1]]
                      /\ calls' = [calls EXCEPT
                                      !.check = @ + 1,
                                      !.responses = @ + Cardinality(responders)]
    /\ UNCHANGED << campaign_data, outbox, notify_calls, book_calls,
                    last_call, last_pass, last_send, mode, arg, result,
                    scheduler >>

\* one iteration of the loop of check_responses
CheckJobHandles ==
    /\ scheduler \in {"running", "shutting_down"}
    /\ jobs["check"].pc = "running"
    /\ jobs["check"].todo # << >>
    /\ LET item == Head(jobs["check"].todo)
           st == HandleResponse([cd |-> campaign_data, events |-> << >>,
                                 handled |-> 0],
                                item.response, item.env)
       IN  /\ campaign_data' = st.cd
           /\ notify_calls' =
                  [e \in Emails |->
                      notify_calls[e] + EventCount(st.events, "notify", e)]
           /\ book_calls' =
                  [e \in Emails |->
                      book_calls[e] + EventCount(st.events, "book", e)]
    /\ jobs' = [jobs EXCEPT !["check"].todo = Tail(@)]
    /\ UNCHANGED << outbox, last_call, last_pass, last_send, calls,
                    mode, arg, result, scheduler >>

\* a callback returns: a date job is finished, the interval job is due
\* again an hour later
JobReturns ==
    /\ scheduler \in {"running", "shutting_down"}
    /\ \E j \in Running :
          /\ jobs[j].todo = << >>
          /\ jobs' = [jobs EXCEPT ![j].pc =
                         IF j = "check" THEN "scheduled" ELSE "done"]
    /\ UNCHANGED << campaign_data, outbox, notify_calls, book_calls,
                    last_call, last_pass, last_send, calls, mode, arg, result,
                    scheduler >>

\* KeyboardInterrupt / SystemExit reaches the main thread, which calls
\* scheduler.shutdown(): no job is started any more
StopRequested ==
    /\ scheduler = "running"
    /\ scheduler' = "shutting_down"
    /\ UNCHANGED << campaign_data, outbox, notify_calls, book_calls,
                    last_call, last_pass, last_send, calls, mode, arg, result,
                    jobs >>

\* scheduler.shutdown() returns without waiting for the running jobs, and
\* the process ends under them
ShutdownMayReturn_NoWait == TRUE

\* scheduler.shutdown() (wait defaults to True) returns once the jobs that
\* are running have returned
ShutdownMayReturn == Running = {}

\* scheduler.shutdown() returns and run_campaign ends
ShutdownReturns ==
    /\ scheduler = "shutting_down"
    /\ ShutdownMayReturn
    /\ scheduler' = "stopped"
    /\ UNCHANGED << campaign_data, outbox, notify_calls, book_calls,
                    last_call, last_pass, last_send, calls, mode, arg, result,
                    jobs >>

NextSched ==
    \/ run_campaign
    \/ StageJobStarts
    \/ StageJobMissed
    \/ StageJobSends
    \/ CheckJobStarts
    \/ CheckJobHandles
    \/ JobReturns
    \/ StopRequested
    \/ ShutdownReturns

SchedSpec == InitSched /\ [][NextSched]_vars

(* ---------------- find_companies_and_contacts on its own -------------- *)
\* Strings that the function searches or lower-cases are written as tuples
\* of characters.
UpperCase ==
    << "A", "B", "C", "D", "E", "F", "G", "H", "I", "J", "K", "L", "M",
       "N", "O", "P", "Q", "R", "S", "T", "U", "V", "W", "X", "Y", "Z" >>

LowerCase ==
    << "a", "b", "c", "d", "e", "f", "g", "h", "i", "j", "k", "l", "m",
       "n", "o", "p", "q", "r", "s", "t", "u", "v", "w", "x", "y", "z" >>

\* str.lower()
lower(s) ==
    [i \in DOMAIN s |->
        IF \E k \in DOMAIN UpperCase : UpperCase[k] = s[i]
        THEN LowerCase[CHOOSE k \in DOMAIN UpperCase : UpperCase[k] = s[i]]
        ELSE s[i]]

\* needle in hay
in(needle, hay) ==
    \E i \in 0..(Len(hay) - Len(needle)) :
        SubSeq(hay, i + 1, i + Len(needle)) = needle

\* "manufacturing"
manufacturing ==
    << "m", "a", "n", "u", "f", "a", "c", "t", "u", "r", "i", "n", "g" >>

\* "construction"
construction ==
    << "c", "o", "n", "s", "t", "r", "u", "c", "t", "i", "o", "n" >>

\* "CFO"
RoleCFO ==
    << "C", "F", "O" >>

\* "Head of Digital Transformation"
RoleHead ==
    << "H", "e", "a", "d", " ", "o", "f", " ", "D", "i", "g", "i", "t",
       "a", "l", " ", "T", "r", "a", "n", "s", "f", "o", "r", "m", "a",
       "t", "i", "o", "n" >>

\* "Digital Transformation Lead"
RoleLead ==
    << "D", "i", "g", "i", "t", "a", "l", " ", "T", "r", "a", "n", "s",
       "f", "o", "r", "m", "a", "t", "i", "o", "n", " ", "L", "e", "a",
       "d" >>

manufacturing_companies ==
    <<
    [company |-> "Aussie Manufacturing Co", industry |-> "Manufacturing",
     website |-> "www.aussiemfg.com.au", size |-> "50-200 employees",
     contacts |-> <<
        [name |-> "John Doe", role |-> RoleCFO,
         email |-> "john.doe@example.com",
         linkedin_url |-> "linkedin.com/in/johndoe"],
        [name |-> "Sarah Wilson", role |-> RoleHead,
         email |-> "sarah.wilson@example.com",
         linkedin_url |-> "linkedin.com/in/sarahwilson"] >>],
    [company |-> "Melbourne Industrial Solutions", industry |-> "Manufacturing",
     website |-> "www.melbourneindustrial.com.au", size |-> "200-500 employees",
     contacts |-> <<
        [name |-> "Michael Chen", role |-> RoleCFO,
         email |-> "m.chen@example.com",
         linkedin_url |-> "linkedin.com/in/michaelchen"],
        [name |-> "Jessica Taylor", role |-> RoleLead,
         email |-> "j.taylor@example.com",
         linkedin_url |-> "linkedin.com/in/jtaylor"] >>]
    >>

construction_companies ==
    <<
    [company |-> "BuildRight Constructions", industry |-> "Construction",
     website |-> "www.buildright.com.au", size |-> "100-250 employees",
     contacts |-> <<
        [name |-> "David Thompson", role |-> RoleCFO,
         email |-> "d.thompson@example.com",
         linkedin_url |-> "linkedin.com/in/davidthompson"],
        [name |-> "Jane Smith", role |-> RoleLead,
         email |-> "jane.smith@example.com",
         linkedin_url |-> "linkedin.com/in/janesmith"] >>],
    [company |-> "Sydney Builders Group", industry |-> "Construction",
     website |-> "www.sydneybuilders.com.au", size |-> "500-1000 employees",
     contacts |-> <<
        [name |-> "Robert Johnson", role |-> RoleCFO,
         email |-> "r.johnson@example.com",
         linkedin_url |-> "linkedin.com/in/robertjohnson"],
        [name |-> "Emma Davis", role |-> RoleHead,
         email |-> "emma.davis@example.com",
         linkedin_url |-> "linkedin.com/in/emmadavis"] >>]
    >>

\* the companies the industry keywords select
all_companies(industry_keywords) ==
    (IF in(manufacturing, lower(industry_keywords))
     THEN manufacturing_companies ELSE << >>)
    \o
    (IF in(construction, lower(industry_keywords))
     THEN construction_companies ELSE << >>)

\* target_roles is None, or a list of role strings
None == [kind |-> "None"]

RoleList(roles) == [kind |-> "list", items |-> roles]

\* the test of the filter: target_roles is None or any(... for role in
\* target_roles)
RoleMatches(contact, target_roles) ==
    \/ target_roles = None
    \/ /\ target_roles # None
       /\ \E k \in DOMAIN target_roles.items :
              in(lower(target_roles.items[k]), lower(contact.role))

contact_info(company, contact) ==
    [company |-> company.company,
     company_size |-> company.size,
     industry |-> company.industry,
     website |-> company.website,
     contact_name |-> contact.name,
     role |-> contact.role,
     email |-> contact.email,
     linkedin_url |-> contact.linkedin_url]

RECURSIVE filtered_contacts_AppendPerRole(_, _, _)
\* a filter that appends the contact once for every role that matches
filtered_contacts_AppendPerRole(company, contacts, target_roles) ==
    IF contacts = << >> THEN << >>
    ELSE LET contact == Head(contacts)
             hits == IF target_roles = None THEN 1
                     ELSE Cardinality({k \in DOMAIN target_roles.items :
                              in(lower(target_roles.items[k]),
                                 lower(contact.role))})
             info == contact_info(company, contact)
         IN  [i \in 1..hits |-> info]
             \o filtered_contacts_AppendPerRole(company, Tail(contacts),
                                                target_roles)

RECURSIVE filtered_contacts(_, _, _)
\* the inner loop: the contacts of one company that pass the role filter
filtered_contacts(company, contacts, target_roles) ==
    IF contacts = << >> THEN << >>
    ELSE (IF RoleMatches(Head(contacts), target_roles)
          THEN << contact_info(company, Head(contacts)) >>
          ELSE << >>)
         \o filtered_contacts(company, Tail(contacts), target_roles)

RECURSIVE FindIn(_, _)
\* the outer loop: result.extend(filtered_contacts) for each company
FindIn(companies, target_roles) ==
    IF companies = << >> THEN << >>
    ELSE filtered_contacts(Head(companies), Head(companies).contacts,
                           target_roles)
         \o FindIn(Tail(companies), target_roles)

\* region is only printed
find_companies_and_contacts(industry_keywords, region, target_roles) ==
    FindIn(all_companies(industry_keywords), target_roles)

\* "manufacturing, construction"
KeywordsBoth ==
    << "m", "a", "n", "u", "f", "a", "c", "t", "u", "r", "i", "n", "g",
       ",", " ", "c", "o", "n", "s", "t", "r", "u", "c", "t", "i", "o",
       "n" >>

\* "Manufacturing"
KeywordsUpper ==
    << "M", "a", "n", "u", "f", "a", "c", "t", "u", "r", "i", "n", "g" >>

\* "construction sites"
KeywordsConstruction ==
    << "c", "o", "n", "s", "t", "r", "u", "c", "t", "i", "o", "n", " ",
       "s", "i", "t", "e", "s" >>

\* "mining"
KeywordsMining ==
    << "m", "i", "n", "i", "n", "g" >>

\* ""
KeywordsEmpty ==
    << >>

\* industry keyword strings the function is applied to
IndustryInputs ==
    {KeywordsBoth, KeywordsUpper, KeywordsConstruction, KeywordsMining,
     KeywordsEmpty}

\* "cfo"
RoleLowerCfo ==
    << "c", "f", "o" >>

\* "Digital"
RoleDigital ==
    << "D", "i", "g", "i", "t", "a", "l" >>

\* "lead"
RoleWordLead ==
    << "l", "e", "a", "d" >>

\* "CTO"
RoleCTO ==
    << "C", "T", "O" >>

\* role strings a filter is made of
RoleInputs == {RoleCFO, RoleLowerCfo, RoleDigital, RoleWordLead, RoleCTO}

RECURSIVE SeqsUpTo(_, _)
\* the lists of at most n elements of S
SeqsUpTo(S, n) ==
    IF n = 0 THEN {<< >>}
    ELSE LET shorter == SeqsUpTo(S, n - 1)
         IN  shorter \cup {Append(s, x) : s \in shorter, x \in S}

\* the role filters the function is applied to: None, the empty list and
\* the lists of up to MaxRoles role strings
RoleFilters ==
    {None} \cup {RoleList(roles) : roles \in SeqsUpTo(RoleInputs, MaxRoles)}

InitFind ==
    /\ EmptyCampaign
    /\ mode = "find"
    /\ NoScheduler
    /\ result = NoValue
    /\ \E industry_keywords \in IndustryInputs, target_roles \in RoleFilters :
          arg = [kind |-> "find",
                 industry_keywords |-> industry_keywords,
                 target_roles |-> target_roles]

Find ==
    /\ mode = "find"
    /\ result = NoValue
    /\ result' = [kind |-> "contacts",
                  contacts |-> find_companies_and_contacts(
                                   arg.industry_keywords, "Australia",
                                   arg.target_roles)]
    /\ UNCHANGED << arg, mode >>
    /\ UNCHANGED campaign_vars
    /\ UNCHANGED sched_vars

FindSpec == InitFind /\ [][Find]_vars

(* ---------------- rendering and the send loop on their own ------------ *)
\* A template is written as the sequence of its replacement fields, in the
\* order str.format meets them; {interests[0]} is an indexed field.
Field(f) == [field |-> f, indexed |-> FALSE]

FirstOf(f) == [field |-> f, indexed |-> TRUE]

TEMPLATES ==
    [initial |->
        << Field("industry"), Field("company"), Field("contact_name"),
           Field("company"), Field("recent_news"), Field("industry"),
           Field("industry") >>,
     followup |->
        << Field("industry"), Field("company"), Field("contact_name"),
           Field("company"), Field("industry"), Field("company_size"),
           Field("industry") >>,
     personalized |->
        << FirstOf("interests"), Field("contact_name"), FirstOf("interests"),
           Field("role"), Field("company"), Field("industry"),
           FirstOf("interests"), Field("company") >>]

\* what dict.get returns for a missing key, and what `not template` rejects
NoTemplate == << >>

\* TEMPLATES.get(template_name, TEMPLATES["initial"])
TemplateGet_DefaultInitial(template_name) ==
    IF template_name \in DOMAIN TEMPLATES THEN TEMPLATES[template_name]
    ELSE TEMPLATES["initial"]

\* TEMPLATES.get(template_name)
TemplateGet(template_name) ==
    IF template_name \in DOMAIN TEMPLATES THEN TEMPLATES[template_name]
    ELSE NoTemplate

Raised(error) == [status |-> "raised", error |-> error]

\* the replacement fields of the template that str.format cannot fill
Unfilled(template, data) ==
    {i \in DOMAIN template :
        \/ template[i].field \notin DOMAIN data
        \/ /\ template[i].indexed
           /\ data[template[i].field] = << >>}

\* template.format(**data): the fields are filled from left to right and the
\* first one that cannot be filled raises
Format(template, data) ==
    IF Unfilled(template, data) = {}
    THEN [status |-> "returned",
          content |-> [i \in DOMAIN template |->
                          IF template[i].indexed
                          THEN Head(data[template[i].field])
                          ELSE data[template[i].field]]]
    ELSE LET i == CHOOSE k \in Unfilled(template, data) :
                      \A m \in Unfilled(template, data) : k <= m
         IN  IF template[i].field \notin DOMAIN data
             THEN Raised("KeyError")
             ELSE Raised("IndexError")

format_email_from_template(template_name, contact_data) ==
    LET template == TemplateGet(template_name)
    IN  IF template = NoTemplate
        THEN Raised("ValueError: Unknown template")
        ELSE IF /\ "recent_news" \notin DOMAIN contact_data
                /\ "industry" \notin DOMAIN contact_data
        THEN Raised("KeyError")
        ELSE LET news == IF "recent_news" \in DOMAIN contact_data
                         THEN << >>
                         ELSE [recent_news |->
                                  << "is in the ", contact_data["industry"],
                                     " sector" >>]
                 interests == IF "interests" \in DOMAIN contact_data
                              THEN << >>
                              ELSE [interests |-> << "digital transformation" >>]
                 contact_data_with_defaults ==
                     (contact_data @@ news) @@ interests
             IN  Format(template, contact_data_with_defaults)

\* the defaults written into the caller's dictionary instead of a copy
ArgumentAfter_NoCopy(template_name, contact_data) ==
    IF \/ TemplateGet(template_name) = NoTemplate
       \/ "industry" \notin DOMAIN contact_data
    THEN contact_data
    ELSE (contact_data
            @@ [recent_news |-> << "is in the ", contact_data["industry"],
                                   " sector" >>])
            @@ [interests |-> << "digital transformation" >>]

\* the caller's dictionary after format_email_from_template: the defaults
\* go into contact_data.copy(), never into contact_data
ArgumentAfter(template_name, contact_data) ==
    contact_data

\* a HubSpot stub that turns the message down
simulate_hubspot_api_call_Rejects(endpoint, data) ==
    [id |-> data.to, status |-> "error"]

\* the HubSpot stub: every call is acknowledged (the id is random in the
\* code; here it names the recipient it was issued for)
simulate_hubspot_api_call(endpoint, data) ==
    [id |-> data.to, status |-> "success"]

RECURSIVE SendLoop(_, _, _)
\* the loop of send_initial_emails and send_followup_emails over contact
\* dictionaries: render, hand to HubSpot, collect the id.  An exception of
\* the render leaves the loop and the function.
SendLoop(template_name, campaign_id, contacts) ==
    IF contacts = << >>
    THEN [status |-> "returned", sent |-> << >>, sent_emails |-> << >>]
    ELSE LET contact == Head(contacts)
             email_content == format_email_from_template(template_name, contact)
         IN  IF email_content.status = "raised"
             THEN [status |-> "raised", error |-> email_content.error,
                   sent |-> << >>, sent_emails |-> << >>]
             ELSE LET rest == SendLoop(template_name, campaign_id,
                                       Tail(contacts))
                      message == [campaign_id |-> campaign_id,
                                  to |-> contact["email"]]
                      response == simulate_hubspot_api_call("emails/send",
                                                            message)
                  IN  [rest EXCEPT
                          !.sent = << message >> \o @,
                          !.sent_emails =
                              (IF response.status = "success"
                               THEN << response.id >> ELSE << >>) \o @]

\* the stage senders that render straight from the contacts they are given
StageSenders ==
    [initial |-> "initial_outreach", followup |-> "followup_outreach"]

\* the contacts of the data set, as find_companies_and_contacts returns them
FoundContacts ==
    SubSeq(find_companies_and_contacts(KeywordsBoth, "Australia", None),
           1, NumContacts)

Without(contact, f) == [k \in DOMAIN contact \ {f} |-> contact[k]]

\* contact dictionaries a caller can pass: as found, enriched, with an
\* empty interests list, or lacking one field
ContactShapes(contact) ==
    {contact,
     [interests |-> << "Industry 4.0" >>,
      recent_news |-> "Company recently expanded operations"] @@ contact,
     [interests |-> << "Industry 4.0" >>] @@ contact,
     [recent_news |-> "Company recently expanded operations"] @@ contact,
     [interests |-> << >>] @@ contact}
    \cup {Without(contact, f) :
            f \in {"company", "industry", "contact_name", "role",
                   "company_size"}}

\* template names a caller can pass
TemplateNames ==
    {"initial", "followup", "personalized", "", "Initial", "reminder"}

InitRender ==
    /\ EmptyCampaign
    /\ mode = "render"
    /\ NoScheduler
    /\ result = NoValue
    /\ \E template_name \in TemplateNames :
         \E contacts \in [DOMAIN FoundContacts ->
                             UNION {ContactShapes(FoundContacts[i]) :
                                       i \in DOMAIN FoundContacts}] :
            /\ \A i \in DOMAIN contacts :
                  contacts[i] \in ContactShapes(FoundContacts[i])
            /\ arg = [kind |-> "render",
                      template_name |-> template_name,
                      contacts |-> contacts]

\* format_email_from_template(template_name, contact) for the first contact
Render ==
    /\ mode = "render"
    /\ result = NoValue
    /\ result' = [kind |-> "email",
                  value |-> format_email_from_template(arg.template_name,
                                                       arg.contacts[1]),
                  contact_data |-> ArgumentAfter(arg.template_name,
                                                 arg.contacts[1])]
    /\ UNCHANGED << arg, mode >>
    /\ UNCHANGED campaign_vars
    /\ UNCHANGED sched_vars

\* send_initial_emails(contacts) or send_followup_emails(contacts)
SendBatch ==
    /\ mode = "render"
    /\ result = NoValue
    /\ arg.template_name \in DOMAIN StageSenders
    /\ result' = [kind |-> "batch",
                  value |-> SendLoop(arg.template_name,
                                     StageSenders[arg.template_name],
                                     arg.contacts)]
    /\ UNCHANGED << arg, mode >>
    /\ UNCHANGED campaign_vars
    /\ UNCHANGED sched_vars

\* the first step of run_campaign / demo_mode on the contacts given: the
\* contacts are stored, the initial emails sent and, when
\* send_initial_emails returns, every contact's email goes to sent_initial;
\* an exception of the send ends the program before that assignment
StartWith ==
    /\ mode = "render"
    /\ result = NoValue
    /\ arg.template_name = "initial"
    /\ LET companies == arg.contacts
           emails == [i \in DOMAIN companies |-> companies[i]["email"]]
           sending == SendLoop("initial", "initial_outreach", companies)
       IN  /\ campaign_data' =
                  [campaign_data EXCEPT
                      !.contacts = emails,
                      !.sent_initial =
                          IF sending.status = "returned" THEN emails ELSE @]
           /\ outbox' = outbox \o sending.sent
           /\ result' = [kind |-> "start", value |-> sending]
    /\ UNCHANGED << notify_calls, book_calls, last_call, last_pass, last_send,
                    calls, arg, mode >>
    /\ UNCHANGED sched_vars

NextRender ==
    \/ Render
    \/ SendBatch
    \/ StartWith

RenderSpec == InitRender /\ [][NextRender]_vars

(* ---------------- the classifier on a seeded random source ------------ *)
\* The random module is a deterministic generator: its state fixes every
\* later draw.  It is modelled as a generator over the hundredths 0..99
\* whose state is the value random.random() returns next (in hundredths).
Seeds == 0..99

\* the generator's state after one draw
NextDraw(x) == (21 * x + 17) % 100

\* random.choice(options), made from the draw x
Choice(options, x) == options[(x % Len(options)) + 1]

\* the clock readings time.time() can give during a run
Clocks == {1001, 2004}

\* a process_responses that reseeds the generator from the clock
StateAtEntry_SeededFromClock(seed, now) == now % 100

\* the generator state process_responses starts from: the one its caller
\* left, since neither function seeds the generator
StateAtEntry(seed, now) == seed

BounceReasons == << "invalid_email", "mailbox_full", "domain_not_found" >>

InterestedContents == << "schedule a call", "set up a time", "case studies" >>

OtherContents == << "not looking", "another provider", "remove me" >>

OutOfOfficeContent == "out of the office"

RECURSIVE FetchSeeded(_, _, _)
\* simulate_fetch_responses reading its draws from the generator in state x
FetchSeeded(email_addresses, x, now) ==
    IF email_addresses = << >> THEN << >>
    ELSE
      LET email == Head(email_addresses)
          rest == Tail(email_addresses)
          x2 == NextDraw(x)
          x3 == NextDraw(x2)
          x4 == NextDraw(x3)
          x5 == NextDraw(x4)
          x6 == NextDraw(x5)
      IN  IF x < 5
          THEN << [email |-> email, status |-> "bounced",
                   reason |-> Choice(BounceReasons, x2),
                   timestamp |-> now] >>
               \o FetchSeeded(rest, x3, now)
          ELSE IF x2 < 3
          THEN << [email |-> email, status |-> "unsubscribed",
                   reason |-> "recipient_request",
                   timestamp |-> now] >>
               \o FetchSeeded(rest, x3, now)
          ELSE IF x3 < 10
          THEN LET is_ooo == x4 < 30
               IN  IF is_ooo
                   THEN << [email |-> email, status |-> "replied",
                            content |-> OutOfOfficeContent,
                            is_out_of_office |-> TRUE,
                            is_interested |-> FALSE,
                            timestamp |-> now] >>
                        \o FetchSeeded(rest, x5, now)
                   ELSE LET is_interested == x5 < 40
                        IN  << [email |-> email, status |-> "replied",
                                content |->
                                    IF is_interested
                                    THEN Choice(InterestedContents, x6)
                                    ELSE Choice(OtherContents, x6),
                                is_out_of_office |-> FALSE,
                                is_interested |-> is_interested,
                                timestamp |-> now] >>
                            \o FetchSeeded(rest, NextDraw(x6), now)
          ELSE FetchSeeded(rest, x4, now)

\* process_responses run at clock reading now, the generator seeded with seed
ProcessSeeded(email_addresses, seed, now) ==
    FilterResponses(FetchSeeded(email_addresses, StateAtEntry(seed, now), now))

InitSeeded ==
    /\ EmptyCampaign
    /\ mode = "seeded"
    /\ NoScheduler
    /\ result = NoValue
    /\ \E seed \in Seeds, first \in Clocks, second \in Clocks :
          arg = [kind |-> "seeded", emails |-> Companies, seed |-> seed,
                 clocks |-> << first, second >>]

\* two runs of process_responses over the same list from the same seed
TwoRuns ==
    /\ mode = "seeded"
    /\ result = NoValue
    /\ result' = [kind |-> "runs",
                  runs |-> [k \in 1..2 |->
                               ProcessSeeded(arg.emails, arg.seed,
                                             arg.clocks[k])]]
    /\ UNCHANGED << arg, mode >>
    /\ UNCHANGED campaign_vars
    /\ UNCHANGED sched_vars

SeededSpec == InitSeeded /\ [][TwoRuns]_vars

(* -------------------- find_available_slots on its own ----------------- *)
RECURSIVE range(_, _, _)
\* range(start, stop, step) for a positive step
range(start, stop, step) ==
    IF start >= stop THEN << >>
    ELSE << start >> \o range(start + step, stop, step)

\* date.weekday() of the day that is `day` days after a day of weekday
\* now_weekday (0 = Monday ... 6 = Sunday)
weekday(now_weekday, day) == (now_weekday + day) % 7

RECURSIVE CandidateSlots(_, _, _, _)
\* the slot times the two loops of find_available_slots go through, for
\* day = first .. days_ahead
CandidateSlots(now_weekday, first, days_ahead, daily_slots) ==
    IF first > days_ahead THEN << >>
    ELSE (IF weekday(now_weekday, first) >= 5
          THEN << >>
          ELSE LET hours == range(9, 17, 8 \div daily_slots)
               IN  [i \in DOMAIN hours |->
                       [day |-> first,
                        weekday |-> weekday(now_weekday, first),
                        hour |-> hours[i], minute |-> 0]])
         \o CandidateSlots(now_weekday, first + 1, days_ahead, daily_slots)

RECURSIVE Available(_, _)
\* the candidates whose draw said "not booked"; booked is the set of the
\* hours whose draw said "booked"
Available(candidates, booked) ==
    IF candidates = << >> THEN << >>
    ELSE (IF Head(candidates).hour \in booked
          THEN << >> ELSE << Head(candidates) >>)
         \o Available(Tail(candidates), booked)

find_available_slots(now_weekday, days_ahead, daily_slots, booked) ==
    Available(CandidateSlots(now_weekday, 1, days_ahead, daily_slots), booked)

InitSlots ==
    /\ EmptyCampaign
    /\ mode = "slots"
    /\ NoScheduler
    /\ result = NoValue
    /\ \E now_weekday \in 0..6, days_ahead \in 0..MaxDaysAhead,
          daily_slots \in 1..8, booked \in SUBSET {9, 13, 16} :
          arg = [kind |-> "slots", now_weekday |-> now_weekday,
                 days_ahead |-> days_ahead, daily_slots |-> daily_slots,
                 booked |-> booked]

FindSlots ==
    /\ mode = "slots"
    /\ result = NoValue
    /\ result' = [kind |-> "slots",
                  candidates |-> CandidateSlots(arg.now_weekday, 1,
                                                arg.days_ahead,
                                                arg.daily_slots),
                  slots |-> find_available_slots(arg.now_weekday,
                                                 arg.days_ahead,
                                                 arg.daily_slots, arg.booked)]
    /\ UNCHANGED << arg, mode >>
    /\ UNCHANGED campaign_vars
    /\ UNCHANGED sched_vars

SlotsSpec == InitSlots /\ [][FindSlots]_vars

(* ------------------- the classifier applied on its own ---------------- *)
\* one call of process_responses over the contact list, for any outcome of
\* the draws
InitClassify ==
    /\ EmptyCampaign
    /\ mode = "classify"
    /\ NoScheduler
    /\ result = NoValue
    /\ \E draws \in [DOMAIN Companies -> AllDraws] :
          arg = [kind |-> "classify", emails |-> Companies, draws |-> draws]

Classify ==
    /\ mode = "classify"
    /\ result = NoValue
    /\ result' = [kind |-> "responses",
                  raw |-> simulate_fetch_responses(arg.emails, arg.draws),
                  processed |-> process_responses(arg.emails, arg.draws)]
    /\ UNCHANGED << arg, mode >>
    /\ UNCHANGED campaign_vars
    /\ UNCHANGED sched_vars

ClassifySpec == InitClassify /\ [][Classify]_vars

(* ============================== claims =============================== *)
FollowupsTo(box, e) == SentTo(box, "followup_outreach", e)

PersonalizedTo(box, e) == SentTo(box, "personalized_outreach", e)

\* the responses of the last pass that classify e as an interested,
\* non-out-of-office reply
InterestedReplies(e) ==
    {i \in DOMAIN last_pass.raw :
        /\ last_pass.raw[i].email = e
        /\ last_pass.raw[i].status = "replied"
        /\ last_pass.raw[i].is_interested
        /\ ~last_pass.raw[i].is_out_of_office}

\* C1: once an email is in the bounced or the unsubscribed bucket, no step
\* sends it another follow-up or personalized email.
C1_NoStageSendAfterBounceOrUnsubscribe ==
    [][\A e \in Emails :
         (e \in Range(campaign_data.bounced) \cup Range(campaign_data.unsubscribed))
            => /\ FollowupsTo(outbox', e) = FollowupsTo(outbox, e)
               /\ PersonalizedTo(outbox', e) = PersonalizedTo(outbox, e)]_vars

\* a follow-up send, made after a response check, that went out to somebody
\* while a bounced contact was left out
C1_Witness ==
    /\ last_call = "day3"
    /\ last_send # << >>
    /\ \E e \in Range(campaign_data.bounced) : e \notin Range(last_send)
    /\ calls.check > 0

\* C2 (as claimed): each contact is in the interested bucket at most once
\* and notify_on_interest is called at most once for it.
C2_InterestedAtMostOnce ==
    \A e \in Emails :
        /\ Count(e, campaign_data.interested) <= 1
        /\ notify_calls[e] <= 1

\* C3 (as claimed): a contact is classified at most once, so each email is
\* in at most one of the bounced, unsubscribed and replied buckets, once.
C3_ClassifiedAtMostOnce ==
    \A e \in Emails :
        Count(e, campaign_data.bounced) + Count(e, campaign_data.unsubscribed)
            + Count(e, campaign_data.replied) <= 1

\* C4 (as claimed): however often the follow-up stage is invoked, a contact
\* is sent the follow-up email at most once.
C4_FollowupSentOncePerContact ==
    \A e \in Emails : FollowupsTo(outbox, e) <= 1

C6_CountsAreDistinctContacts ==
    \A b \in Buckets :
        /\ NoDuplicates(campaign_data[b])
        /\ Len(campaign_data[b]) = Cardinality(Range(campaign_data[b]))
        /\ Len(campaign_data[b]) <= Len(campaign_data.contacts)

\* C7: every email in meetings_booked is in interested (as often at least),
\* and in a response check each append to meetings_booked comes after an
\* append of the same email to interested.
C7_BookedImpliesInterestedFirst ==
    /\ \A e \in Range(campaign_data.meetings_booked) :
          /\ e \in Range(campaign_data.interested)
          /\ Count(e, campaign_data.meetings_booked)
                <= Count(e, campaign_data.interested)
    /\ \A i \in DOMAIN last_pass.events :
          last_pass.events[i].kind = "meeting"
            => \E j \in 1..(i - 1) :
                  /\ last_pass.events[j].kind = "interested"
                  /\ last_pass.events[j].email = last_pass.events[i].email

\* a response check that booked a meeting
C7_Witness ==
    /\ last_call = "check"
    /\ \E i \in DOMAIN last_pass.events : last_pass.events[i].kind = "meeting"
    /\ campaign_data.meetings_booked # << >>

\* C8: in one response check, a contact classified as an interested reply
\* is appended to interested once and notified and booked once each; a
\* contact not so classified is not; so N interested contacts give N calls
\* of the notifier and N of the booker.
C8_OneNotifyAndOneBookingPerInterestedReply ==
    last_call = "check" =>
        /\ \A e \in Emails :
              LET k == Cardinality(InterestedReplies(e))
              IN  /\ k <= 1
                  /\ EventCount(last_pass.events, "notify", e) = k
                  /\ EventCount(last_pass.events, "book", e) = k
                  /\ Count(e, campaign_data.interested)
                        = Count(e, last_pass.pre.interested) + k
        /\ (\A e \in Range(last_pass.emails) : InterestedReplies(e) # {})
              => /\ Cardinality({i \in DOMAIN last_pass.events :
                                    last_pass.events[i].kind = "notify"})
                        = Len(last_pass.emails)
                 /\ Cardinality({i \in DOMAIN last_pass.events :
                                    last_pass.events[i].kind = "book"})
                        = Len(last_pass.emails)

\* a response check in which every contact (two at least) replied interested
C8_Witness ==
    /\ last_call = "check"
    /\ Len(last_pass.emails) >= 2
    /\ Cardinality({e \in Emails : InterestedReplies(e) # {}}) >= 2
    /\ Cardinality({i \in DOMAIN last_pass.events :
                       last_pass.events[i].kind = "notify"}) >= 2

\* C9 (as claimed): a contact whose booking failed stays interested and out
\* of meetings_booked in that pass, and the next response check calls
\* book_meeting for it again.
C9_FailedBookingRetriedNextCheck ==
    last_call = "check" =>
        /\ \A i \in DOMAIN last_pass.events :
              (last_pass.events[i].kind = "book" /\ ~last_pass.events[i].ok)
                => LET e == last_pass.events[i].email
                   IN  /\ e \in Range(campaign_data.interested)
                       /\ Count(e, campaign_data.meetings_booked)
                             = Count(e, last_pass.pre.meetings_booked)
        /\ \A e \in Range(last_pass.pre.interested) :
              e \notin Range(last_pass.pre.meetings_booked)
                => EventCount(last_pass.events, "book", e) >= 1

\* C10: in a response check every call of notify_on_interest, whatever
\* happened to the Slack post and whatever it returned, is followed at once
\* by a call of book_meeting for the same email, and every response of the
\* pass is handled: each lands in its bucket.
C10_NotifyOutcomeNeverStopsThePass ==
    last_call = "check" =>
        /\ \A i \in DOMAIN last_pass.events :
              last_pass.events[i].kind = "notify"
                => /\ i + 1 \in DOMAIN last_pass.events
                   /\ last_pass.events[i + 1].kind = "book"
                   /\ last_pass.events[i + 1].email = last_pass.events[i].email
        /\ last_pass.handled = Len(last_pass.responses)
        /\ \A e \in Emails :
              \A status \in {"bounced", "unsubscribed", "replied"} :
                 Count(e, campaign_data[status])
                    = Count(e, last_pass.pre[status])
                      + Cardinality({i \in DOMAIN last_pass.responses :
                                        /\ last_pass.responses[i].email = e
                                        /\ last_pass.responses[i].status = status})

\* a response check in which the Slack post failed for the first response
\* and a later response was still handled
C10_Witness ==
    /\ last_call = "check"
    /\ Len(last_pass.responses) >= 2
    /\ last_pass.events # << >>
    /\ last_pass.events[1].kind = "interested"
    /\ last_pass.events[1].email = last_pass.responses[1].email
    /\ last_pass.events[2].kind = "notify"
    /\ last_pass.events[2].how = "api_error"
    /\ last_pass.events[3].kind = "book"
    /\ last_pass.handled = 2

\* the responses a classification call reported for the address at
\* position i of its argument
ReportedFor(i) ==
    {k \in DOMAIN result.raw : result.raw[k].email = arg.emails[i]}

\* C11: one classification call reports at most one outcome per address,
\* decided in the order bounce, unsubscribe, reply: an address whose bounce
\* test succeeds is reported bounced only, one whose unsubscribe test
\* succeeds (and bounce test fails) unsubscribed only, and so on.
C11_OneOutcomeByPrecedence ==
    result.kind = "responses" =>
        \A i \in DOMAIN arg.emails :
            LET d == arg.draws[i]
                statuses == {result.raw[k].status : k \in ReportedFor(i)}
            IN  /\ Cardinality(ReportedFor(i)) <= 1
                /\ d.bounce => statuses = {"bounced"}
                /\ (~d.bounce /\ d.unsub) => statuses = {"unsubscribed"}
                /\ (~d.bounce /\ ~d.unsub /\ d.reply) => statuses = {"replied"}
                /\ (~d.bounce /\ ~d.unsub /\ ~d.reply) => statuses = {}

\* a call in which an address passes all three tests and is reported once
C11_Witness ==
    /\ result.kind = "responses"
    /\ \E i \in DOMAIN arg.emails :
          /\ arg.draws[i].bounce /\ arg.draws[i].unsub /\ arg.draws[i].reply
          /\ Cardinality(ReportedFor(i)) = 1

\* the out-of-office replies of e among the raw responses of the last pass
OutOfOfficeReplies(e) ==
    {i \in DOMAIN last_pass.raw :
        /\ last_pass.raw[i].email = e
        /\ last_pass.raw[i].status = "replied"
        /\ last_pass.raw[i].is_out_of_office}

\* the raw responses of e in the last pass
RawResponses(e) == {i \in DOMAIN last_pass.raw : last_pass.raw[i].email = e}

\* C12: a response check in which a contact's only response is an
\* out-of-office reply leaves every bucket as it was for that contact (so a
\* contact in no bucket stays in none) and calls neither the notifier nor
\* the booker for it.
C12_OutOfOfficeChangesNothing ==
    last_call = "check" =>
        \A e \in Emails :
            (OutOfOfficeReplies(e) # {} /\ RawResponses(e) = OutOfOfficeReplies(e))
              => /\ \A b \in Buckets :
                       Count(e, campaign_data[b]) = Count(e, last_pass.pre[b])
                 /\ \A i \in DOMAIN last_pass.events : last_pass.events[i].email # e
                 /\ \A i \in DOMAIN last_pass.responses :
                       last_pass.responses[i].email # e

\* a response check with an out-of-office reply from a contact that is in
\* no bucket, while another contact's response was recorded
C12_Witness ==
    /\ last_call = "check"
    /\ \E e \in Emails :
          /\ OutOfOfficeReplies(e) # {}
          /\ \A b \in Buckets : e \notin Range(campaign_data[b])
    /\ last_pass.responses # << >>

\* the contacts whose only response in the last pass was out-of-office
OutOfOfficeOnly ==
    {e \in Emails :
        OutOfOfficeReplies(e) # {} /\ RawResponses(e) = OutOfOfficeReplies(e)}

\* C13 (as claimed): the follow-up send that comes after a response check
\* leaves out a contact whose reply in that check was out-of-office.
C13_OutOfOfficeSkipsThatFollowup ==
    (last_call = "day3" /\ calls.check = 1 /\ calls.day3 = 1)
        => \A e \in OutOfOfficeOnly : e \notin Range(last_send)

\* C13 (amended): an out-of-office reply excludes nobody.  A stage send
\* goes, once, to every contact that is in none of the bounced, unsubscribed
\* and replied buckets; in particular, after the first response check, the
\* follow-up and the personalized send both go to a contact whose reply in
\* that check was out-of-office.
C13_OutOfOfficeStaysEligible ==
    last_call \in {"day3", "day4"} =>
        /\ \A e \in Range(campaign_data.contacts) :
              (/\ e \notin Range(campaign_data.bounced)
               /\ e \notin Range(campaign_data.unsubscribed)
               /\ e \notin Range(campaign_data.replied))
                 => Count(e, last_send) = 1
        /\ calls.check = 1 =>
              \A e \in OutOfOfficeOnly : Count(e, last_send) = 1

\* a follow-up sent, right after the first response check, to a contact
\* whose reply in that check was out-of-office
C13_Witness ==
    /\ last_call = "day3"
    /\ calls.check = 1
    /\ \E e \in OutOfOfficeOnly : e \in Range(last_send)

RECURSIVE StagesSentTo(_, _)
\* the campaign ids of the messages sent to e, in the order they were sent
StagesSentTo(box, e) ==
    IF box = << >> THEN << >>
    ELSE IF Head(box).to = e
         THEN << Head(box).campaign_id >> \o StagesSentTo(Tail(box), e)
         ELSE StagesSentTo(Tail(box), e)

StageOrder == << "initial_outreach", "followup_outreach", "personalized_outreach" >>

Unclassified ==
    {e \in Range(campaign_data.contacts) :
        /\ e \notin Range(campaign_data.bounced)
        /\ e \notin Range(campaign_data.unsubscribed)
        /\ e \notin Range(campaign_data.replied)}

C15_CallbacksNeverOverlap ==
    jobs["check"].pc = "running" => Running = {"check"}

\* the campaign id of a stage job's messages
JobCampaignId(j) ==
    IF j = "day3" THEN "followup_outreach" ELSE "personalized_outreach"

StopCameMidBatch ==
    /\ scheduler = "shutting_down"
    /\ jobs["day3"].pc = "running"
    /\ jobs["day3"].todo # << >>
    /\ Len(jobs["day3"].todo) < Len(jobs["day3"].batch)

C17_AbsentOrEmptyFilterReturnsAll ==
    (/\ mode = "find"
     /\ result # NoValue
     /\ arg.target_roles \in {None, RoleList(<< >>)})
    => \A i \in DOMAIN all_companies(arg.industry_keywords) :
         \A k \in DOMAIN all_companies(arg.industry_keywords)[i].contacts :
            \E r \in DOMAIN result.contacts :
               result.contacts[r].email =
                  all_companies(arg.industry_keywords)[i].contacts[k].email

EmailsOf(contacts) == [i \in DOMAIN contacts |-> contacts[i].email]

\* C18: whatever the industry keywords and the role filter, no two contacts
\* of the returned list have the same email.
C18_NoDuplicateEmails ==
    (mode = "find" /\ result # NoValue)
    => NoDuplicates(EmailsOf(result.contacts))

\* a contact returned under a filter in which two roles match it
C18_Witness ==
    /\ mode = "find"
    /\ result # NoValue
    /\ arg.target_roles # None
    /\ \E r \in DOMAIN result.contacts :
         \E k1, k2 \in DOMAIN arg.target_roles.items :
            /\ k1 # k2
            /\ in(lower(arg.target_roles.items[k1]),
                  lower(result.contacts[r].role))
            /\ in(lower(arg.target_roles.items[k2]),
                  lower(result.contacts[r].role))

\* the render of contact i of the batch succeeds
Renders(i) ==
    format_email_from_template(arg.template_name, arg.contacts[i]).status
        = "returned"

\* C19 (as claimed): a render failure stays with its contact: the stage send
\* returns, and every contact of the batch whose own render succeeds is sent
\* the email and has its id in the returned list.
C19_RenderFailureConfinedToContact ==
    (mode = "render" /\ result # NoValue /\ result.kind = "batch")
    => /\ result.value.status = "returned"
       /\ \A i \in DOMAIN arg.contacts :
             Renders(i) =>
                /\ \E m \in DOMAIN result.value.sent :
                      result.value.sent[m].to = arg.contacts[i]["email"]
                /\ \E m \in DOMAIN result.value.sent_emails :
                      result.value.sent_emails[m] = arg.contacts[i]["email"]

RegisteredTemplates == {"initial", "followup", "personalized"}

\* C20: format_email_from_template raises the unknown-template error exactly
\* for the names that are not initial, followup or personalized; for those
\* three it goes on with the template registered under the name, so what it
\* returns is that template filled in.
C20_UnknownTemplateExactlyForUnregistered ==
    (mode = "render" /\ result # NoValue /\ result.kind = "email")
    => /\ arg.template_name \notin RegisteredTemplates
            => result.value = Raised("ValueError: Unknown template")
       /\ arg.template_name \in RegisteredTemplates
            => /\ result.value # Raised("ValueError: Unknown template")
               /\ result.value.status = "returned"
                     => LET template == TEMPLATES[arg.template_name]
                            contact == arg.contacts[1]
                        IN  /\ DOMAIN result.value.content = DOMAIN template
                            /\ \A i \in DOMAIN template :
                                  (/\ ~template[i].indexed
                                   /\ template[i].field \in DOMAIN contact)
                                  => result.value.content[i]
                                        = contact[template[i].field]

\* an unregistered name rejected for a contact that every template can be
\* rendered for
C20_Witness ==
    /\ mode = "render"
    /\ result # NoValue
    /\ result.kind = "email"
    /\ arg.template_name \notin RegisteredTemplates
    /\ \A name \in RegisteredTemplates :
          format_email_from_template(name, arg.contacts[1]).status = "returned"
    /\ result.value.status = "raised"

\* the attributes a template needs that have no default
NeededOf(template_name) ==
    {TEMPLATES[template_name][i].field : i \in DOMAIN TEMPLATES[template_name]}
        \ {"recent_news", "interests"}

\* a registered template rendered for a contact that has what the template
\* needs, lacks recent_news or interests, and whose interests, when given,
\* are not the empty list
RenderedWithDefaults ==
    /\ mode = "render"
    /\ result # NoValue
    /\ result.kind = "email"
    /\ arg.template_name \in RegisteredTemplates
    /\ NeededOf(arg.template_name) \subseteq DOMAIN arg.contacts[1]
    /\ \/ "recent_news" \notin DOMAIN arg.contacts[1]
       \/ "interests" \notin DOMAIN arg.contacts[1]
    /\ "interests" \in DOMAIN arg.contacts[1]
          => arg.contacts[1]["interests"] # << >>

C22_EmptyCheckChangesNothing ==
    [][(calls'.check = calls.check + 1 /\ last_pass'.responses = << >>)
          => /\ campaign_data' = campaign_data
             /\ notify_calls' = notify_calls
             /\ book_calls' = book_calls
             /\ last_pass'.events = << >>
             /\ outbox' = outbox]_vars

\* an empty response check made when a reply had already been recorded,
\* with an out-of-office reply among the raw responses
C22_Witness ==
    /\ last_call = "check"
    /\ calls.check = 2
    /\ last_pass.responses = << >>
    /\ last_pass.raw # << >>
    /\ last_pass.pre.replied # << >>
    /\ campaign_data = last_pass.pre

\* C23: an email is in sent_initial only when the initial send to it was
\* handed to HubSpot, was acknowledged, and its id is in the list
\* send_initial_emails returned.
C23_ContactedOnlyAfterAcknowledgedSend ==
    (mode = "render" /\ campaign_data.sent_initial # << >>)
    => /\ result # NoValue
       /\ result.kind = "start"
       /\ result.value.status = "returned"
       /\ \A e \in Range(campaign_data.sent_initial) :
             /\ SentTo(outbox, "initial_outreach", e) >= 1
             /\ e \in Range(result.value.sent_emails)

\* a start whose initial send returned the ids of all its contacts
C23_Witness ==
    /\ mode = "render"
    /\ result # NoValue
    /\ result.kind = "start"
    /\ Len(campaign_data.sent_initial) = NumContacts
    /\ Len(result.value.sent_emails) = NumContacts

\* a start whose initial send raised after the first contact was sent: the
\* contacts are stored and nobody is contacted
StartAborted ==
    /\ mode = "render"
    /\ result # NoValue
    /\ result.kind = "start"
    /\ result.value.status = "raised"
    /\ outbox # << >>
    /\ campaign_data.contacts # << >>
    /\ campaign_data.sent_initial = << >>

\* what the claim compares of a response: email, status, reason (bounces
\* and unsubscribes) and the two flags (replies)
Compared(r) ==
    IF r.status = "replied"
    THEN << r.email, r.status, r.is_out_of_office, r.is_interested >>
    ELSE << r.email, r.status, r.reason >>

SeededReply ==
    /\ mode = "seeded"
    /\ result # NoValue
    /\ \E i \in DOMAIN result.runs[1] : result.runs[1][i].status = "replied"

\* a run that returned a bounce, and one that returned an unsubscribe
SeededBounce ==
    /\ mode = "seeded"
    /\ result # NoValue
    /\ \E i \in DOMAIN result.runs[1] : result.runs[1][i].status = "bounced"

SeededUnsubscribe ==
    /\ mode = "seeded"
    /\ result # NoValue
    /\ \E i \in DOMAIN result.runs[1] :
          result.runs[1][i].status = "unsubscribed"

\* C25 (as claimed): in a scheduled campaign nobody has been sent the
\* personalized email without having been sent the follow-up email.
C25_PersonalizedOnlyAfterFollowup ==
    mode = "sched" =>
        \A e \in Emails :
            PersonalizedTo(outbox, e) >= 1 => FollowupsTo(outbox, e) >= 1

\* C26 (as claimed): for daily_slots from 1 to 8, find_available_slots goes
\* through exactly daily_slots candidate slots on each weekday of the range,
\* each starting between 09:00 and 16:59, and returns no slot on a Saturday
\* or Sunday.
C26_DailySlotsCandidatesPerWeekday ==
    (mode = "slots" /\ result # NoValue)
    => /\ \A day \in 1..arg.days_ahead :
             weekday(arg.now_weekday, day) < 5
                => Cardinality({i \in DOMAIN result.candidates :
                                   result.candidates[i].day = day})
                      = arg.daily_slots
       /\ \A i \in DOMAIN result.candidates :
             result.candidates[i].hour \in 9..16
       /\ \A i \in DOMAIN result.slots : result.slots[i].weekday < 5

\* C27: every email in the interested bucket is in the replied bucket, and
\* a response check adds an email to interested exactly once per interested,
\* non-out-of-office reply of that pass, each time adding it to replied too.
C27_InterestedAreReplied ==
    /\ \A e \in Emails :
          Count(e, campaign_data.interested) <= Count(e, campaign_data.replied)
    /\ last_call = "check" =>
          \A e \in Emails :
             LET gained == Count(e, campaign_data.interested)
                              - Count(e, last_pass.pre.interested)
             IN  /\ gained = Cardinality(InterestedReplies(e))
                 /\ Count(e, campaign_data.replied)
                       - Count(e, last_pass.pre.replied) >= gained

\* a response check that recorded an interested reply while another
\* contact's reply was out-of-office
C27_Witness ==
    /\ last_call = "check"
    /\ \E e \in Emails :
          /\ InterestedReplies(e) # {}
          /\ e \in Range(campaign_data.interested)
          /\ e \in Range(campaign_data.replied)
    /\ \E e \in Emails : OutOfOfficeReplies(e) # {}

\* C28: every email in the bounced, unsubscribed, replied, interested and
\* meetings_booked buckets is in sent_initial, every email in sent_initial
\* is a contact of the campaign, and as long as the initial send has not
\* been made a response check asks about nobody and records nothing.
C28_BucketsWithinSentInitial ==
    /\ \A b \in Buckets :
          Range(campaign_data[b]) \subseteq Range(campaign_data.sent_initial)
    /\ Range(campaign_data.sent_initial) \subseteq Range(campaign_data.contacts)
    /\ (mode = "calls" /\ calls.start = 0) =>
          /\ \A b \in Buckets : campaign_data[b] = << >>
          /\ last_pass.raw = << >>
          /\ last_pass.responses = << >>

\* a response check made before the initial send
C28_Witness ==
    /\ mode = "calls"
    /\ calls.start = 0
    /\ last_call = "check"
    /\ calls.check >= 1
    /\ campaign_data.sent_initial = << >>

\* a contact recorded in a bucket after the initial send
ClassifiedAfterStart ==
    /\ mode = "calls"
    /\ calls.start = 1
    /\ \E b \in Buckets : campaign_data[b] # << >>

====
